---- MODULE Spec2Model ----
(***************************************************************************)
(* Model of the selection-and-move pipeline of bevy_chess (src/board.rs).  *)
(*                                                                         *)
(* One frame of the Update stage runs the five systems select_square,      *)
(* move_piece, select_piece, reset_selected and despawn_taken_pieces in    *)
(* any order the before/after labels of BoardPlugin::build permit; command *)
(* buffers (insert Taken, insert Promoted, despawn) are applied when the   *)
(* stage ends.  The rules engine (crate `chess`) is modelled by the rules  *)
(* of chess: legality of one move and the position it leads to.            *)
(***************************************************************************)
EXTENDS Integers, FiniteSets, Sequences, TLC

(* ------------------------------------------------------------------ *)
(* Bounds                                                             *)
(* ------------------------------------------------------------------ *)
\* accepted moves after which no further click is fed to the pipeline
MaxMoves == 4

(* ------------------------------------------------------------------ *)
(* Squares: index = rank * 8 + file, rank and file in 0..7             *)
(* ------------------------------------------------------------------ *)
Squares == 0 .. 63
\* Option::None for a square (SelectedSquare.entity, en_passant(), left(), ...)
NoSq == 64
\* Option::None for SelectedPiece.entity
NoEnt == 0

make_square(rank, file) == rank * 8 + file
get_rank(s) == s \div 8
get_file(s) == s % 8

Abs(x) == IF x < 0 THEN -x ELSE x
Sgn(x) == IF x < 0 THEN -1 ELSE IF x > 0 THEN 1 ELSE 0
Max(x, y) == IF x > y THEN x ELSE y

\* Square::right / Square::left: one file toward h / toward a, None past the edge
right(s) == IF get_file(s) = 7 THEN NoSq ELSE s + 1
left(s) == IF get_file(s) = 0 THEN NoSq ELSE s - 1
\* Square::backward(color): one rank toward the mover's own side
backward(s, color) ==
  IF color = "White"
    THEN (IF get_rank(s) = 0 THEN NoSq ELSE s - 8)
    ELSE (IF get_rank(s) = 7 THEN NoSq ELSE s + 8)

Other(color) == IF color = "White" THEN "Black" ELSE "White"

(* ------------------------------------------------------------------ *)
(* Rules engine: a position is [board, stm, castle, ep]                *)
(*   board  : square -> [t, c]  (t = "None" on an empty square)         *)
(*   stm    : side to move                                             *)
(*   castle : subset of {"WK","WQ","BK","BQ"}, the castle rights left   *)
(*   ep     : square of the pawn that may be taken en passant, or NoSq *)
(* ------------------------------------------------------------------ *)
Empty == [t |-> "None", c |-> "None"]

side_to_move(g) == g.stm
piece_on(g, s) == g.board[s]
en_passant(g) == g.ep

\* squares strictly between two aligned squares
Between(a, b) ==
  LET dr == get_rank(b) - get_rank(a)
      df == get_file(b) - get_file(a)
      n  == Max(Abs(dr), Abs(df))
  IN  { make_square(get_rank(a) + k * Sgn(dr), get_file(a) + k * Sgn(df)) : k \in 1 .. (n - 1) }

PathClear(b, a, z) == \A s \in Between(a, z) : b[s].t = "None"

\* the piece on `from` attacks square `to` on board b
Attacks(b, from, to) ==
  LET p  == b[from]
      dr == get_rank(to) - get_rank(from)
      df == get_file(to) - get_file(from)
  IN  /\ from # to
      /\ CASE p.t = "Pawn"   -> Abs(df) = 1 /\ dr = (IF p.c = "White" THEN 1 ELSE -1)
           [] p.t = "Knight" -> {Abs(dr), Abs(df)} = {1, 2}
           [] p.t = "King"   -> Abs(dr) <= 1 /\ Abs(df) <= 1
           [] p.t = "Rook"   -> (dr = 0 \/ df = 0) /\ PathClear(b, from, to)
           [] p.t = "Bishop" -> Abs(dr) = Abs(df) /\ PathClear(b, from, to)
           [] p.t = "Queen"  -> (dr = 0 \/ df = 0 \/ Abs(dr) = Abs(df)) /\ PathClear(b, from, to)
           [] OTHER          -> FALSE

Attacked(b, s, by) == \E f \in Squares : b[f].c = by /\ Attacks(b, f, s)

KingSquares(b, color) == { s \in Squares : b[s] = [t |-> "King", c |-> color] }
InCheck(b, color) == \E k \in KingSquares(b, color) : Attacked(b, k, Other(color))

\* ChessMove::new(source, dest, promotion)
ChessMove(source, dest, promotion) == [from |-> source, to |-> dest, promotion |-> promotion]

LastRank(color) == IF color = "White" THEN 7 ELSE 0
PawnStartRank(color) == IF color = "White" THEN 1 ELSE 6
Forward(color) == IF color = "White" THEN 1 ELSE -1

IsEnPassant(g, m) ==
  /\ g.board[m.from].t = "Pawn"
  /\ g.ep # NoSq
  /\ m.to = g.ep + 8 * Forward(g.stm)
  /\ get_rank(m.from) = get_rank(g.ep)
  /\ Abs(get_file(m.from) - get_file(g.ep)) = 1

IsCastle(g, m) ==
  /\ g.board[m.from].t = "King"
  /\ Abs(get_file(m.to) - get_file(m.from)) = 2
  /\ get_rank(m.to) = get_rank(m.from)

CastleRight(color, kingside) ==
  IF color = "White" THEN (IF kingside THEN "WK" ELSE "WQ")
                     ELSE (IF kingside THEN "BK" ELSE "BQ")

CastleAllowed(g, m) ==
  LET c        == g.stm
      home     == make_square(IF c = "White" THEN 0 ELSE 7, 4)
      kingside == get_file(m.to) > get_file(m.from)
      rookSq   == make_square(get_rank(home), IF kingside THEN 7 ELSE 0)
  IN  /\ m.from = home
      /\ CastleRight(c, kingside) \in g.castle
      /\ g.board[rookSq] = [t |-> "Rook", c |-> c]
      /\ PathClear(g.board, home, rookSq)
      /\ ~Attacked(g.board, home, Other(c))
      /\ ~Attacked(g.board, (home + m.to) \div 2, Other(c))
      /\ ~Attacked(g.board, m.to, Other(c))

PseudoLegal(g, m) ==
  LET b  == g.board
      p  == b[m.from]
      dr == get_rank(m.to) - get_rank(m.from)
      df == get_file(m.to) - get_file(m.from)
  IN  /\ m.from # m.to
      /\ p.c = g.stm
      /\ b[m.to].c # g.stm
      /\ IF p.t = "Pawn"
           THEN /\ (get_rank(m.to) = LastRank(p.c)) <=> (m.promotion # "None")
                /\ \/ df = 0 /\ dr = Forward(p.c) /\ b[m.to].t = "None"
                   \/ /\ df = 0 /\ dr = 2 * Forward(p.c)
                      /\ get_rank(m.from) = PawnStartRank(p.c)
                      /\ b[m.to].t = "None" /\ PathClear(b, m.from, m.to)
                   \/ /\ Abs(df) = 1 /\ dr = Forward(p.c)
                      /\ (b[m.to].t # "None" \/ IsEnPassant(g, m))
           ELSE /\ m.promotion = "None"
                /\ IF IsCastle(g, m) THEN CastleAllowed(g, m) ELSE Attacks(b, m.from, m.to)

\* castle rights that a move touching square s removes
RightsLostAt(s) ==
  (IF s = make_square(0, 0) THEN {"WQ"} ELSE {}) \cup
  (IF s = make_square(0, 7) THEN {"WK"} ELSE {}) \cup
  (IF s = make_square(7, 0) THEN {"BQ"} ELSE {}) \cup
  (IF s = make_square(7, 7) THEN {"BK"} ELSE {}) \cup
  (IF s = make_square(0, 4) THEN {"WK", "WQ"} ELSE {}) \cup
  (IF s = make_square(7, 4) THEN {"BK", "BQ"} ELSE {})

\* Board::make_move_new: the position after move m
make_move_new(g, m) ==
  LET b      == g.board
      p      == b[m.from]
      placed == IF m.promotion # "None" THEN [t |-> m.promotion, c |-> p.c] ELSE p
      ep_cap == IsEnPassant(g, m)
      castle == IsCastle(g, m)
      ks     == get_file(m.to) > get_file(m.from)
      rookFr == make_square(get_rank(m.from), IF ks THEN 7 ELSE 0)
      rookTo == IF ks THEN m.to - 1 ELSE m.to + 1
      b1     == [s \in Squares |->
                   IF s = m.to THEN placed
                   ELSE IF s = m.from THEN Empty
                   ELSE IF ep_cap /\ s = g.ep THEN Empty
                   ELSE IF castle /\ s = rookTo THEN b[rookFr]
                   ELSE IF castle /\ s = rookFr THEN Empty
                   ELSE b[s]]
      dbl    == p.t = "Pawn" /\ Abs(get_rank(m.to) - get_rank(m.from)) = 2
      canTake == \E s \in Squares :
                    /\ get_rank(s) = get_rank(m.to)
                    /\ Abs(get_file(s) - get_file(m.to)) = 1
                    /\ b1[s] = [t |-> "Pawn", c |-> Other(p.c)]
  IN  [board  |-> b1,
       stm    |-> Other(g.stm),
       castle |-> (g.castle \ RightsLostAt(m.from)) \ RightsLostAt(m.to),
       ep     |-> IF dbl /\ canTake THEN m.to ELSE NoSq]

\* Board::legal(m): m is one of the legal moves of the position
legal(g, m) ==
  /\ PseudoLegal(g, m)
  /\ ~InCheck(make_move_new(g, m).board, g.stm)

\* variant of make_move that accepts whatever is submitted
make_move_unchecked(g, m) == TRUE

\* Game::make_move(m): accepted iff the move is legal in the current position
\* (a finished game has no legal move, so result() adds no case)
make_move(g, m) == legal(g, m)

(* ------------------------------------------------------------------ *)
(* Piece records and starting positions                                *)
(* ------------------------------------------------------------------ *)
\* a Piece component together with its entity's Taken / Promoted markers;
\* exists = FALSE once the entity has been despawned
Piece(piece_type, color, file, rank) ==
  [piece_type |-> piece_type, color |-> color, square |-> make_square(rank, file),
   taken |-> FALSE, promoted |-> FALSE, exists |-> TRUE]

BackRank == <<"Rook", "Knight", "Bishop", "Queen", "King", "Bishop", "Knight", "Rook">>

\* the 32 pieces spawned at startup
StartPieces ==
  [i \in 1 .. 32 |->
     IF i <= 8 THEN Piece(BackRank[i], "White", i - 1, 0)
     ELSE IF i <= 16 THEN Piece("Pawn", "White", i - 9, 1)
     ELSE IF i <= 24 THEN Piece(BackRank[i - 16], "Black", i - 17, 7)
     ELSE Piece("Pawn", "Black", i - 25, 6)]

\* positions of a game in progress, reached from the start by legal play
CastlePieces ==
  << Piece("King", "White", 4, 0), Piece("Rook", "White", 7, 0),
     Piece("Rook", "White", 7, 4), Piece("Pawn", "White", 5, 1),
     Piece("King", "Black", 4, 7), Piece("Rook", "Black", 0, 7),
     Piece("Rook", "Black", 7, 7), Piece("Pawn", "Black", 5, 6) >>

KnightPieces ==
  << Piece("King", "White", 4, 0), Piece("Rook", "White", 7, 0),
     Piece("Rook", "White", 7, 4), Piece("Pawn", "White", 5, 1),
     Piece("King", "Black", 4, 7), Piece("Knight", "Black", 4, 3) >>

EnPassantPieces ==
  << Piece("King", "White", 4, 0), Piece("Pawn", "White", 4, 4),
     Piece("King", "Black", 4, 7), Piece("Pawn", "Black", 3, 6),
     Piece("Pawn", "Black", 5, 6) >>

PromotionPieces ==
  << Piece("King", "White", 4, 0), Piece("Pawn", "White", 0, 6),
     Piece("King", "Black", 6, 6), Piece("Knight", "Black", 1, 7),
     Piece("Pawn", "Black", 7, 1) >>

BoardOf(pcs) ==
  [s \in Squares |->
     IF \E i \in DOMAIN pcs : pcs[i].square = s
       THEN LET i == CHOOSE j \in DOMAIN pcs : pcs[j].square = s
            IN  [t |-> pcs[i].piece_type, c |-> pcs[i].color]
       ELSE Empty]

Position(pcs, stm, castle) ==
  [board |-> BoardOf(pcs), stm |-> stm, castle |-> castle, ep |-> NoSq]

Scenarios == 1 .. 5

StartOf(scn) ==
  CASE scn = 1 -> [pcs |-> StartPieces, stm |-> {"White"}, castle |-> {"WK", "WQ", "BK", "BQ"}]
    [] scn = 2 -> [pcs |-> CastlePieces, stm |-> {"White", "Black"}, castle |-> {"WK", "BK", "BQ"}]
    [] scn = 3 -> [pcs |-> EnPassantPieces, stm |-> {"Black"}, castle |-> {}]
    [] scn = 4 -> [pcs |-> PromotionPieces, stm |-> {"White", "Black"}, castle |-> {}]
    [] scn = 5 -> [pcs |-> KnightPieces, stm |-> {"White"}, castle |-> {"WK"}]

\* the board squares the pointer is clicked on in each position
ClickSquares(scn) ==
  CASE scn = 1 -> { make_square(1, 4), make_square(3, 4), make_square(6, 3),
                    make_square(4, 3), make_square(7, 3) }
    [] scn = 2 -> { make_square(0, 4), make_square(0, 6), make_square(0, 5),
                    make_square(4, 7), make_square(7, 4), make_square(7, 6),
                    make_square(7, 7) }
    [] scn = 3 -> { make_square(6, 3), make_square(4, 3), make_square(4, 4),
                    make_square(5, 3), make_square(5, 4), make_square(6, 5),
                    make_square(4, 5) }
    [] scn = 4 -> { make_square(6, 0), make_square(7, 0), make_square(7, 1),
                    make_square(1, 7), make_square(0, 7) }
    [] scn = 5 -> { make_square(0, 4), make_square(0, 6), make_square(3, 4),
                    make_square(1, 3), make_square(1, 5), make_square(2, 5),
                    make_square(0, 5) }

\* a frame's pointer input: a board square, a press off the board, or no press
OffBoard == 66
NoClick == 65

(* ------------------------------------------------------------------ *)
(* State                                                               *)
(* ------------------------------------------------------------------ *)
VARIABLES
  scenario,         \* which starting position this run plays from
  chess_game,       \* Game.chess_game: the engine's current position
  pieces,           \* entity -> Piece record
  selected_square,  \* SelectedSquare.entity (a square, or NoSq)
  selected_piece,   \* SelectedPiece.entity (an entity, or NoEnt)
  changed,          \* system -> SelectedSquare.is_changed() as that system sees it
  reset_events,     \* ResetSelectedEvents not yet read by reset_selected
  cmd_taken,        \* queued commands: insert Taken
  cmd_promoted,     \* queued commands: insert Promoted
  cmd_despawn,      \* queued commands: despawn_recursive
  app_exit,         \* an AppExit event has been sent
  phase,            \* "Idle" between frames, "Run" while the stage runs
  ran,              \* systems that have run in the current frame
  click,            \* pointer input of the current (or last) frame
  sel0,             \* selection when the current (or last) frame began
  attempt,          \* the move submitted in the current (or last) frame
  nmoves            \* accepted moves so far

vars == << scenario, chess_game, pieces, selected_square, selected_piece, changed,
           reset_events, cmd_taken, cmd_promoted, cmd_despawn, app_exit,
           phase, ran, click, sel0, attempt, nmoves >>

Systems == {"select_square", "move_piece", "select_piece", "reset_selected",
            "despawn_taken_pieces"}

NoAttempt ==
  [made |-> FALSE, accepted |-> FALSE, piece |-> NoEnt, m |-> ChessMove(NoSq, NoSq, "None"),
   old_board |-> chess_game, old_pieces |-> pieces, pending |-> reset_events]

Init ==
  /\ scenario \in Scenarios
  /\ \E stm \in StartOf(scenario).stm :
       chess_game = Position(StartOf(scenario).pcs, stm, StartOf(scenario).castle)
  /\ pieces = StartOf(scenario).pcs
  /\ selected_square = NoSq
  /\ selected_piece = NoEnt
  /\ changed = [s \in {"move_piece", "select_piece"} |-> TRUE]
  /\ reset_events = 0
  /\ cmd_taken = {}
  /\ cmd_promoted = {}
  /\ cmd_despawn = {}
  /\ app_exit = FALSE
  /\ phase = "Idle"
  /\ ran = {}
  /\ click = NoClick
  /\ sel0 = [square |-> NoSq, piece |-> NoEnt]
  /\ attempt = NoAttempt
  /\ nmoves = 0

\* entities the queries iterate over
Live == { e \in DOMAIN pieces : pieces[e].exists }

(* ------------------------------------------------------------------ *)
(* Frame: input, then the systems in any permitted order, then the     *)
(* command buffers                                                     *)
(* ------------------------------------------------------------------ *)
BeginFrame(c) ==
  /\ phase = "Idle"
  /\ ~app_exit
  /\ c # NoClick => nmoves < MaxMoves
  /\ phase' = "Run"
  /\ ran' = {}
  /\ click' = c
  /\ sel0' = [square |-> selected_square, piece |-> selected_piece]
  /\ attempt' = NoAttempt
  /\ UNCHANGED << scenario, chess_game, pieces, selected_square, selected_piece, changed,
                  reset_events, cmd_taken, cmd_promoted, cmd_despawn, app_exit, nmoves >>

\* a system may start when it has not run yet and the systems it is declared
\* `after` have run
CanRun(sys, afters) == phase = "Run" /\ sys \notin ran /\ afters \subseteq ran

AllChanged == [s \in {"move_piece", "select_piece"} |-> TRUE]

\* variant of select_square whose off-board branch clears only the square
select_square_keeps_piece ==
  /\ CanRun("select_square", {})
  /\ ran' = ran \cup {"select_square"}
  /\ IF click = NoClick
       THEN UNCHANGED << selected_square, selected_piece, changed >>
       ELSE /\ selected_square' = (IF click \in Squares THEN click ELSE NoSq)
            /\ changed' = AllChanged
            /\ UNCHANGED selected_piece
  /\ UNCHANGED << scenario, chess_game, pieces, reset_events, cmd_taken, cmd_promoted,
                  cmd_despawn, app_exit, phase, click, sel0, attempt, nmoves >>

select_square ==
  /\ CanRun("select_square", {})
  /\ ran' = ran \cup {"select_square"}
  /\ IF click = NoClick
       THEN UNCHANGED << selected_square, selected_piece, changed >>
       ELSE IF click \in Squares
         THEN /\ selected_square' = click
              /\ changed' = AllChanged
              /\ UNCHANGED selected_piece
         ELSE /\ selected_square' = NoSq
              /\ selected_piece' = NoEnt
              /\ changed' = AllChanged
  /\ UNCHANGED << scenario, chess_game, pieces, reset_events, cmd_taken, cmd_promoted,
                  cmd_despawn, app_exit, phase, click, sel0, attempt, nmoves >>

\* variant of selectable without the turn test
selectable_any_color ==
  { e \in Live : pieces[e].square = selected_square }

\* select_piece, lines 163-171: the pieces the loop can stop at (the query's
\* iteration order is not fixed, so any of them may be the first)
selectable ==
  { e \in Live : /\ pieces[e].square = selected_square
                 /\ pieces[e].color = side_to_move(chess_game) }

select_piece ==
  /\ CanRun("select_piece", {"select_square", "move_piece"})
  /\ ran' = ran \cup {"select_piece"}
  /\ changed' = [changed EXCEPT !["select_piece"] = FALSE]
  /\ IF /\ changed["select_piece"]
        /\ selected_square # NoSq
        /\ selected_piece = NoEnt
        /\ selectable # {}
       THEN selected_piece' \in selectable
       ELSE UNCHANGED selected_piece
  /\ UNCHANGED << scenario, chess_game, pieces, selected_square, reset_events, cmd_taken,
                  cmd_promoted, cmd_despawn, app_exit, phase, click, sel0, attempt, nmoves >>

\* variant of promotion_of that tests the first rank for both colours
promotion_of_first_rank(piece_type, piece_color, new_square) ==
  IF piece_type = "Pawn" /\ get_rank(new_square) = 0 THEN "Queen" ELSE "None"

(* move_piece, lines 223-242: promotion is inferred from the mover and the target *)
promotion_of(piece_type, piece_color, new_square) ==
  IF piece_type = "Pawn"
    THEN IF piece_color = "Black"
           THEN (IF get_rank(new_square) = 0 THEN "Queen" ELSE "None")
           ELSE (IF get_rank(new_square) = 7 THEN "Queen" ELSE "None")
    ELSE "None"

(* move_piece, lines 248-255: the piece standing on old_square is relocated *)
Relocated(a_piece, old_square, new_square, promotion) ==
  IF a_piece.square = old_square
    THEN [a_piece EXCEPT !.square = new_square,
                         !.piece_type = IF promotion # "None" THEN promotion ELSE @]
    ELSE a_piece

(* move_piece, lines 256-263: a piece standing on new_square is taken *)
TakenByDisplacement(a_piece, old_square, new_square, old_board) ==
  /\ a_piece.square # old_square
  /\ a_piece.square = new_square
  /\ piece_on(old_board, new_square).t # "None"

(* move_piece, lines 265-290: rooks of the mover's colour follow a castling king *)
CastledRook(a_piece, old_square, new_square, piece_color, piece_type) ==
  LET horizontal_movement == get_file(old_square) - get_file(new_square)
      castles == piece_type = "King" /\ Abs(horizontal_movement) > 1
  IN  IF a_piece.piece_type = "Rook" /\ a_piece.color = piece_color /\ castles
        THEN IF horizontal_movement > 0
               THEN IF get_file(a_piece.square) = 0 /\ right(new_square) # NoSq
                      THEN [a_piece EXCEPT !.square = right(new_square)]
                      ELSE a_piece
               ELSE IF get_file(a_piece.square) = 7 /\ left(new_square) # NoSq
                      THEN [a_piece EXCEPT !.square = left(new_square)]
                      ELSE a_piece
        ELSE a_piece

\* variant of TakenEnPassant that reads en_passant() as the square the
\* capturing pawn lands on
TakenEnPassant_on_target(a_piece, new_square, piece_color, piece_type, old_board) ==
  /\ piece_type = "Pawn"
  /\ en_passant(old_board) = new_square
  /\ a_piece.square = backward(new_square, piece_color)

(* move_piece, lines 292-299: the pawn passed en passant is taken *)
TakenEnPassant(a_piece, new_square, piece_color, piece_type, old_board) ==
  /\ piece_type = "Pawn"
  /\ en_passant(old_board) = backward(new_square, piece_color)
  /\ en_passant(old_board) # NoSq
  /\ a_piece.square = en_passant(old_board)

\* one pass of the loop body over a piece record
AfterMove(a_piece, old_square, new_square, piece_color, piece_type, promotion) ==
  CastledRook(Relocated(a_piece, old_square, new_square, promotion),
              old_square, new_square, piece_color, piece_type)

MarkedTaken(a_piece, old_square, new_square, piece_color, piece_type, promotion, old_board) ==
  \/ TakenByDisplacement(a_piece, old_square, new_square, old_board)
  \/ TakenEnPassant(AfterMove(a_piece, old_square, new_square, piece_color, piece_type, promotion),
                    new_square, piece_color, piece_type, old_board)

\* variant of on_accept that ignores the engine's answer
on_accept_always(accepted, moved, unmoved) == moved

\* move_piece, line 245: the loop over the pieces runs only for an accepted move
on_accept(accepted, moved, unmoved) == IF accepted THEN moved ELSE unmoved

\* variant of Submits that skips a click on the selected piece's own square
Submits_other_square ==
  /\ selected_piece \in Live
  /\ changed["move_piece"]
  /\ selected_square # NoSq
  /\ selected_square # pieces[selected_piece].square

\* move_piece reaches the submission: the selected entity is among the pieces,
\* the selected square changed since move_piece last ran, and a square is selected
Submits ==
  /\ selected_piece \in Live
  /\ changed["move_piece"]
  /\ selected_square # NoSq

move_piece ==
  /\ CanRun("move_piece", {"select_square"})
  /\ ran' = ran \cup {"move_piece"}
  /\ changed' = [changed EXCEPT !["move_piece"] = FALSE]
  /\ IF ~Submits
       THEN UNCHANGED << chess_game, pieces, reset_events, cmd_taken, cmd_promoted,
                         attempt, nmoves >>
       ELSE LET old_square  == pieces[selected_piece].square
                new_square  == selected_square
                piece_color == pieces[selected_piece].color
                piece_type  == pieces[selected_piece].piece_type
                promotion   == promotion_of(piece_type, piece_color, new_square)
                m           == ChessMove(old_square, new_square, promotion)
                old_board   == chess_game
                accepted    == make_move(chess_game, m)
            IN  /\ chess_game' = IF accepted THEN make_move_new(chess_game, m) ELSE chess_game
                /\ pieces' =
                     on_accept(accepted,
                               [e \in DOMAIN pieces |->
                                  IF e \in Live
                                    THEN AfterMove(pieces[e], old_square, new_square,
                                                   piece_color, piece_type, promotion)
                                    ELSE pieces[e]],
                               pieces)
                /\ cmd_taken' =
                     IF accepted
                       THEN cmd_taken \cup
                            { e \in Live : MarkedTaken(pieces[e], old_square, new_square,
                                                       piece_color, piece_type, promotion,
                                                       old_board) }
                       ELSE cmd_taken
                /\ cmd_promoted' =
                     IF accepted /\ promotion # "None"
                       THEN cmd_promoted \cup { e \in Live : pieces[e].square = old_square }
                       ELSE cmd_promoted
                /\ reset_events' = reset_events + 1
                /\ attempt' = [attempt EXCEPT !.made = TRUE, !.accepted = accepted,
                                              !.piece = selected_piece, !.m = m,
                                              !.old_board = old_board, !.old_pieces = pieces]
                /\ nmoves' = IF accepted THEN nmoves + 1 ELSE nmoves
  /\ UNCHANGED << scenario, selected_square, selected_piece, cmd_despawn, app_exit,
                  phase, click, sel0 >>

reset_selected ==
  /\ CanRun("reset_selected", {"select_square"})
  /\ ran' = ran \cup {"reset_selected"}
  /\ IF reset_events > 0
       THEN /\ selected_square' = NoSq
            /\ selected_piece' = NoEnt
            /\ changed' = AllChanged
            /\ reset_events' = 0
       ELSE UNCHANGED << selected_square, selected_piece, changed, reset_events >>
  /\ UNCHANGED << scenario, chess_game, pieces, cmd_taken, cmd_promoted, cmd_despawn,
                  app_exit, phase, click, sel0, attempt, nmoves >>

despawn_taken_pieces ==
  /\ CanRun("despawn_taken_pieces", {})
  /\ ran' = ran \cup {"despawn_taken_pieces"}
  /\ LET taken == { e \in Live : pieces[e].taken }
     IN  /\ app_exit' = (app_exit \/ \E e \in taken : pieces[e].piece_type = "King")
         /\ cmd_despawn' = cmd_despawn \cup taken
  /\ UNCHANGED << scenario, chess_game, pieces, selected_square, selected_piece, changed,
                  reset_events, cmd_taken, cmd_promoted, phase, click, sel0, attempt, nmoves >>

\* the stage ends: every system has run and the queued commands are applied
EndFrame ==
  /\ phase = "Run"
  /\ ran = Systems
  /\ phase' = "Idle"
  /\ pieces' = [e \in DOMAIN pieces |->
                  [pieces[e] EXCEPT !.taken = @ \/ (e \in cmd_taken),
                                    !.promoted = @ \/ (e \in cmd_promoted),
                                    !.exists = @ /\ (e \notin cmd_despawn)]]
  /\ cmd_taken' = {}
  /\ cmd_promoted' = {}
  /\ cmd_despawn' = {}
  /\ UNCHANGED << scenario, chess_game, selected_square, selected_piece, changed,
                  reset_events, app_exit, ran, click, sel0, attempt, nmoves >>

Next ==
  \/ \E c \in ClickSquares(scenario) \cup {OffBoard, NoClick} : BeginFrame(c)
  \/ select_square
  \/ move_piece
  \/ select_piece
  \/ reset_selected
  \/ despawn_taken_pieces
  \/ EndFrame

Spec == Init /\ [][Next]_vars

TypeOK ==
  /\ selected_square \in Squares \cup {NoSq}
  /\ selected_piece \in DOMAIN pieces \cup {NoEnt}
  /\ reset_events \in 0 .. 2
  /\ phase \in {"Idle", "Run"}
  /\ ran \subseteq Systems

(* ------------------------------------------------------------------ *)
(* Properties                                                          *)
(* ------------------------------------------------------------------ *)
\* between two frames: the last click has been processed by every system
AtRest == phase = "Idle"
Idle == selected_square = NoSq /\ selected_piece = NoEnt
\* the piece records as they were when the last frame began
pieces0 == attempt.old_pieces
\* a reset left unread by the previous frame is consumed in the next one
ResetSettles == (AtRest /\ attempt.pending > 0) => (Idle /\ reset_events = 0)

\* C1: with a piece selected, a click on a different board square submits a move
\* of exactly that piece to exactly that square, and the selection is Idle
\* afterwards (at the latest once the queued reset has been read).
C1_ClickSubmitsMove ==
  (AtRest /\ sel0.piece # NoEnt /\ click \in Squares /\ click # sel0.square)
    => /\ attempt.made
       /\ attempt.piece = sel0.piece
       /\ attempt.m.to = click
       /\ (Idle \/ reset_events > 0)

C3_ResetWithinFrame == AtRest => reset_events = 0

\* the pieces that hold a square: spawned, not despawned and not Taken
Alive(pcs) == { e \in DOMAIN pcs : pcs[e].exists /\ ~pcs[e].taken }

\* C4: with no piece selected, a click on a square holding a live piece of the
\* side to move selects that square and that piece; a click on any other board
\* square selects the square and no piece.
C4_SelectByOccupancy ==
  (AtRest /\ sel0.piece = NoEnt /\ click \in Squares)
    => LET own == { e \in Alive(pieces0) : /\ pieces0[e].square = click
                                           /\ pieces0[e].color = side_to_move(chess_game) }
       IN  /\ selected_square = click
           /\ IF own # {} THEN selected_piece \in own ELSE selected_piece = NoEnt

\* C5: a piece becomes the selected piece only if its colour is the side to
\* move at that moment.
C5_TurnGating ==
  [][(selected_piece' # selected_piece /\ selected_piece' # NoEnt)
       => pieces'[selected_piece'].color = side_to_move(chess_game')]_vars

C5_Witness ==
  /\ AtRest /\ sel0.piece = NoEnt /\ selected_piece # NoEnt
  /\ nmoves > 0
  /\ pieces[selected_piece].color = "Black"
  /\ side_to_move(chess_game) = "Black"

CastleAttempt ==
  /\ attempt.made /\ attempt.accepted
  /\ pieces0[attempt.piece].piece_type = "King"
  /\ Abs(get_file(attempt.m.from) - get_file(attempt.m.to)) > 1

\* C7: an accepted castling move relocates exactly one rook, the mover's rook
\* from the corner of the king's rank on the side of travel, to the square
\* next to the king's destination; no other rook's square changes.
C7_OnlyCornerRookMoves ==
  CastleAttempt =>
    LET toA    == get_file(attempt.m.to) < get_file(attempt.m.from)
        corner == make_square(get_rank(attempt.m.from), IF toA THEN 0 ELSE 7)
        dest   == IF toA THEN attempt.m.to + 1 ELSE attempt.m.to - 1
        moved  == { e \in DOMAIN pieces : /\ pieces0[e].piece_type = "Rook"
                                          /\ pieces[e].square # pieces0[e].square }
    IN  \E r \in DOMAIN pieces :
          /\ moved = {r}
          /\ pieces0[r].square = corner
          /\ pieces0[r].color = pieces0[attempt.piece].color
          /\ pieces[r].square = dest

\* pieces marked captured by the last submission
NewlyTaken ==
  { e \in DOMAIN pieces : (pieces[e].taken \/ e \in cmd_taken) /\ ~pieces0[e].taken }

\* the last submission was an accepted pawn move onto the en-passant target
\* square of the position it was made in
EnPassantAttempt ==
  /\ attempt.made /\ attempt.accepted
  /\ pieces0[attempt.piece].piece_type = "Pawn"
  /\ en_passant(attempt.old_board) # NoSq
  /\ attempt.m.to = en_passant(attempt.old_board) + 8 * Forward(side_to_move(attempt.old_board))

\* C8: an accepted pawn move onto the en-passant target square marks exactly
\* the opposing pawn directly behind the destination as captured, and the
\* destination square held no piece before the move.
C8_EnPassantCapture ==
  EnPassantAttempt =>
    LET mover   == pieces0[attempt.piece]
        behind  == backward(attempt.m.to, mover.color)
        victims == { e \in Alive(pieces0) : pieces0[e].square = behind }
    IN  /\ Cardinality(victims) = 1
        /\ \A v \in victims : /\ pieces0[v].piece_type = "Pawn"
                              /\ pieces0[v].color = Other(mover.color)
        /\ NewlyTaken = victims
        /\ piece_on(attempt.old_board, attempt.m.to) = Empty
        /\ \A e \in Alive(pieces0) : pieces0[e].square # attempt.m.to

C8_Witness ==
  /\ AtRest /\ EnPassantAttempt
  /\ \E v \in DOMAIN pieces :
       /\ pieces[v].taken /\ ~pieces0[v].taken
       /\ pieces[v].square = backward(attempt.m.to, pieces0[attempt.piece].color)

\* C9: a move is submitted with promotion Queen exactly when the selected
\* piece is a pawn and the target is on the last rank for its colour, with no
\* promotion otherwise; when such a move is accepted the same record is a Queen
\* on the target square, and no accepted move changes any other piece's type.
C9_Promotion ==
  attempt.made =>
    LET mover == pieces0[attempt.piece]
        last  == get_rank(attempt.m.to) = (IF mover.color = "White" THEN 7 ELSE 0)
    IN  /\ attempt.m.promotion = (IF mover.piece_type = "Pawn" /\ last THEN "Queen" ELSE "None")
        /\ (attempt.accepted /\ attempt.m.promotion = "Queen")
             => /\ pieces[attempt.piece].piece_type = "Queen"
                /\ pieces[attempt.piece].square = attempt.m.to
        /\ \A e \in DOMAIN pieces \ {attempt.piece} :
             pieces[e].piece_type = pieces0[e].piece_type
        /\ attempt.m.promotion = "None"
             => pieces[attempt.piece].piece_type = mover.piece_type

C9_Witness ==
  /\ AtRest /\ attempt.made /\ attempt.accepted
  /\ attempt.m.promotion = "Queen"
  /\ pieces0[attempt.piece].piece_type = "Pawn"
  /\ pieces0[attempt.piece].color = "Black"
  /\ pieces[attempt.piece].piece_type = "Queen"

\* C10: between frames no two alive (not captured) piece records share a square.
C10_UniqueOccupancy ==
  AtRest => \A e1, e2 \in Alive(pieces) :
              e1 # e2 => pieces[e1].square # pieces[e2].square

\* C11: an accepted move leaves the number of alive (not captured) pieces
\* unchanged or lowers it by exactly one.
C11_AliveCountStep ==
  (AtRest /\ attempt.made /\ attempt.accepted)
    => Cardinality(Alive(pieces)) \in
         { Cardinality(Alive(pieces0)), Cardinality(Alive(pieces0)) - 1 }

\* C12: the position changes only in the step that submits a move; an accepted
\* (legal) move flips the side to move once, a rejected one leaves the position
\* as it was, and so does every step that submits nothing.
C12_SideToMove ==
  [][LET submitted == attempt'.made /\ ~attempt.made
     IN  /\ chess_game' # chess_game
              => /\ submitted /\ attempt'.accepted
                 /\ legal(chess_game, attempt'.m)
         /\ (submitted /\ attempt'.accepted)
              => /\ side_to_move(chess_game') = Other(side_to_move(chess_game))
                 /\ nmoves' = nmoves + 1
         /\ (submitted /\ ~legal(chess_game, attempt'.m))
              => /\ ~attempt'.accepted
                 /\ chess_game' = chess_game
                 /\ nmoves' = nmoves]_vars

\* from the initial position the e-pawn's two-square advance is accepted and
\* Black is to move
C12_Witness ==
  /\ AtRest /\ scenario = 1 /\ nmoves = 1
  /\ attempt.made /\ attempt.accepted
  /\ attempt.m = ChessMove(make_square(1, 4), make_square(3, 4), "None")
  /\ side_to_move(attempt.old_board) = "White"
  /\ side_to_move(chess_game) = "Black"

\* C14: a click off the board leaves the selection Idle whatever it was,
\* submits no move and changes neither the position nor any piece record.
C14_OffBoardClears ==
  (AtRest /\ click = OffBoard)
    => /\ Idle
       /\ reset_events = 0
       /\ ~attempt.made
       /\ chess_game = attempt.old_board
       /\ \A e \in DOMAIN pieces :
            /\ pieces[e].square = pieces0[e].square
            /\ pieces[e].piece_type = pieces0[e].piece_type
            /\ pieces[e].color = pieces0[e].color
            /\ pieces[e].taken = pieces0[e].taken

C14_Witness ==
  /\ AtRest /\ click = OffBoard
  /\ sel0.piece # NoEnt /\ pieces0[sel0.piece].exists
  /\ sel0.square # NoSq
  /\ Idle

\* C15: between frames, a selected piece implies a selected square equal to
\* that piece's current square.
C15_SelectionConsistent ==
  (AtRest /\ selected_piece # NoEnt)
    => /\ selected_square # NoSq
       /\ selected_square = pieces[selected_piece].square

\* C16: a record marked captured is never chosen as the selected piece, never
\* relocated, never marked captured again and never resurrected.
C16_CapturedExcluded ==
  /\ [][(selected_piece' # selected_piece /\ selected_piece' # NoEnt)
          => ~pieces[selected_piece'].taken]_vars
  /\ [][\A e \in DOMAIN pieces :
          pieces[e].taken
            => /\ pieces'[e].taken
               /\ pieces'[e].square = pieces[e].square
               /\ pieces[e].exists \/ ~pieces'[e].exists
               /\ e \in cmd_taken' => e \in cmd_taken]_vars

\* C17: on an accepted move, an opponent piece that the board held on the
\* destination is the one record marked captured (and the mover is not); with
\* an empty destination and no en-passant capture nothing is marked captured.
C17_CaptureByDisplacement ==
  (AtRest /\ attempt.made /\ attempt.accepted)
    => LET mover  == pieces0[attempt.piece]
           target == piece_on(attempt.old_board, attempt.m.to)
           on_to  == { e \in Alive(pieces0) : pieces0[e].square = attempt.m.to }
       IN  /\ (target.t # "None" /\ target.c = Other(mover.color))
                => /\ attempt.piece \notin NewlyTaken
                   /\ \E v \in on_to :
                        /\ NewlyTaken = {v}
                        /\ pieces0[v].piece_type = target.t
                        /\ pieces0[v].color = target.c
           /\ (target.t = "None" /\ ~EnPassantAttempt) => NewlyTaken = {}

\* C18: between frames the piece records match the engine's board: a square
\* holds a piece of some type and colour on the board exactly when one single
\* not-captured record has that square, and that record has that type and colour.
C18_RegistryMatchesBoard ==
  AtRest =>
    \A s \in Squares :
      LET occ == { e \in Alive(pieces) : pieces[e].square = s }
      IN  IF piece_on(chess_game, s).t = "None"
            THEN occ = {}
            ELSE \E e \in occ :
                   /\ occ = {e}
                   /\ pieces[e].piece_type = piece_on(chess_game, s).t
                   /\ pieces[e].color = piece_on(chess_game, s).c

\* C19: an accepted move puts exactly the selected piece on the target; every
\* other record keeps its square and type, except one rook when the move castles.
C19_MoveFrame ==
  (attempt.made /\ attempt.accepted)
    => LET moved  == { e \in DOMAIN pieces : pieces[e].square # pieces0[e].square }
           others == moved \ {attempt.piece}
       IN  /\ { e \in DOMAIN pieces : e \in moved /\ pieces[e].square = attempt.m.to }
                = {attempt.piece}
           /\ Cardinality(others) <= (IF CastleAttempt THEN 1 ELSE 0)
           /\ \A r \in others : pieces0[r].piece_type = "Rook"
           /\ \A e \in DOMAIN pieces \ {attempt.piece} :
                pieces[e].piece_type = pieces0[e].piece_type

\* C20: every submitted move starts on the current square of an existing,
\* not-captured piece of the side to move, and a selection is submitted at
\* most once (no reset of an earlier submission is pending when it is made).
C20_SubmissionPrecondition ==
  attempt.made
    => LET mover == pieces0[attempt.piece]
       IN  /\ mover.exists /\ ~mover.taken
           /\ attempt.m.from = mover.square
           /\ mover.color = side_to_move(attempt.old_board)
           /\ attempt.pending = 0
====
